---- MODULE Spec2Model ----
(***************************************************************************)
(* Model of jackal_bot.py: the Telegram handlers search_user, search_pes   *)
(* and show_all, and the status resolver get_medical_status, reading two   *)
(* worksheets of one spreadsheet: the roster (sheet1) and the form log     *)
(* ("Form responses 1") that an external form appends to.                  *)
(*                                                                         *)
(* Text is modelled as sequences of one-character strings, so that         *)
(* str.upper() and strptime("%d/%m/%Y") are computed, not assumed.         *)
(***************************************************************************)
EXTENDS Integers, Sequences, FiniteSets, TLC

VARIABLES roster,        \* sheet1, the personnel rows, in sheet order
          formLog,       \* worksheet "Form responses 1", in submission order
          pc,            \* where the running handler is
          cmd,           \* the handler that runs or has just replied
          args,          \* context.args
          key,           \* syn_no / pes_code: context.args[0].upper()
          data,          \* the handler's sheet.get_all_records()
          i,             \* position of "for row in data"
          user_details,  \* search_user's user_details
          response,      \* the blocks appended to response so far
          form_data,     \* get_medical_status's last form_data
          latest_status, \* what get_medical_status last returned
          errlog,        \* what logger.error has recorded for this command
          reply          \* what reply_text was last called with

vars == <<roster, formLog, pc, cmd, args, key, data, i, user_details, response,
          form_data, latest_status, errlog, reply>>

(* ---------------- bounds ---------------- *)
MaxRoster == 2
MaxLog == 2

(* ---------------- text ---------------- *)
LowerLetters == <<"a","b","c","d","e","f","g","h","i","j","k","l","m",
                  "n","o","p","q","r","s","t","u","v","w","x","y","z">>
UpperLetters == <<"A","B","C","D","E","F","G","H","I","J","K","L","M",
                  "N","O","P","Q","R","S","T","U","V","W","X","Y","Z">>
DigitChars == <<"0","1","2","3","4","5","6","7","8","9">>

UpperChar(c) ==
    IF \E k \in DOMAIN LowerLetters : LowerLetters[k] = c
    THEN UpperLetters[CHOOSE k \in DOMAIN LowerLetters : LowerLetters[k] = c]
    ELSE c

\* str.upper()
Upper(s) == [k \in DOMAIN s |-> UpperChar(s[k])]

IsDigit(c) == \E k \in DOMAIN DigitChars : DigitChars[k] = c
DigitVal(c) == (CHOOSE k \in DOMAIN DigitChars : DigitChars[k] = c) - 1

RECURSIVE ToNumber(_)
ToNumber(s) ==
    IF Len(s) = 0 THEN 0
    ELSE 10 * ToNumber(SubSeq(s, 1, Len(s) - 1)) + DigitVal(s[Len(s)])

AllDigits(s) == \A k \in DOMAIN s : IsDigit(s[k])

(* ---------------- dates ---------------- *)
ValueError == -1

IsLeap(y) == (y % 4 = 0 /\ y % 100 # 0) \/ y % 400 = 0

DaysInMonth(y, m) ==
    IF m = 2 THEN (IF IsLeap(y) THEN 29 ELSE 28)
    ELSE IF m \in {4, 6, 9, 11} THEN 30 ELSE 31

\* a calendar date as a number ordered the way datetime.date is ordered
DateOrd(y, m, d) == y * 10000 + m * 100 + d

\* datetime.datetime.strptime(s, "%d/%m/%Y").date(); ValueError when s does
\* not match the format or names no calendar day
Strptime(s) ==
    LET slashes == {k \in DOMAIN s : s[k] = "/"} IN
    IF Cardinality(slashes) # 2 THEN ValueError
    ELSE
      LET p1 == CHOOSE k \in slashes : \A l \in slashes : k <= l
          p2 == CHOOSE k \in slashes : \A l \in slashes : k >= l
          dd == SubSeq(s, 1, p1 - 1)
          mm == SubSeq(s, p1 + 1, p2 - 1)
          yy == SubSeq(s, p2 + 1, Len(s))
      IN IF ~ ( /\ Len(dd) \in 1..2 /\ Len(mm) \in 1..2 /\ Len(yy) = 4
                /\ AllDigits(dd) /\ AllDigits(mm) /\ AllDigits(yy) )
         THEN ValueError
         ELSE LET d == ToNumber(dd)
                  m == ToNumber(mm)
                  y == ToNumber(yy)
              IN IF y >= 1 /\ m \in 1..12 /\ d \in 1..DaysInMonth(y, m)
                 THEN DateOrd(y, m, d)
                 ELSE ValueError

\* datetime.datetime.today().date()
today == DateOrd(2024, 1, 7)

PastDate   == <<"0","1","/","0","1","/","2","0","2","4">>
TodayDate  == <<"0","7","/","0","1","/","2","0","2","4">>
FutureDate == <<"1","5","/","0","1","/","2","0","2","4">>
BadDate    == <<"3","0","/","0","2","/","2","0","2","4">>
Dates == {PastDate, TodayDate, FutureDate, BadDate}

(* ---------------- get_medical_status ---------------- *)
None == <<>>

\* f"STATUS: {row['Medical Status']} ({row['Start Date']} - {row['End Date']})"
StatusLine(row) == <<row.label, row.start, row.end>>

ActiveStrict(start_date, end_date) == start_date < today /\ today < end_date
\* start_date <= today <= end_date
Active(start_date, end_date) == start_date <= today /\ today <= end_date

\* the loop over reversed(form_data), from row k down to row 1, inside the
\* try block: a ValueError leaves the loop and the function
RECURSIVE ScanReversed(_, _, _)
ScanReversed(rows, syn_no, k) ==
    IF k = 0 THEN [ret |-> None, err |-> ""]
    ELSE LET row == rows[k] IN
         IF row.syn = syn_no
         THEN LET start_date == Strptime(row.start) IN
              IF start_date = ValueError
              THEN [ret |-> None, err |-> "ValueError"]
              ELSE LET end_date == Strptime(row.end) IN
                   IF end_date = ValueError
                   THEN [ret |-> None, err |-> "ValueError"]
                   ELSE IF Active(start_date, end_date)
                        THEN [ret |-> StatusLine(row), err |-> ""]
                        ELSE ScanReversed(rows, syn_no, k - 1)
         ELSE ScanReversed(rows, syn_no, k - 1)

\* get_medical_status(syn_no), given the outcome of the worksheet read:
\* ok = FALSE is get_all_records() raising
get_medical_status(syn_no, ok, rows) ==
    IF ~ok THEN [ret |-> None, err |-> "APIError"]
    ELSE ScanReversed(rows, syn_no, Len(rows))

Logged(err) == IF err = "" THEN {} ELSE {err}

(* ---------------- sample data ---------------- *)
IdA1  == <<"A","1">>
Ida1  == <<"a","1">>
IdB2  == <<"B","2">>
IdZ9  == <<"Z","9">>
Blank == <<>>
PesB2 == <<"B","2">>
Pesb2 == <<"b","2">>
PesC3 == <<"C","3">>

Row(syn, name, pes) == [syn |-> syn, rank |-> "CPL", name |-> name, pes |-> pes]

\* rows of sheet1: get_all_records() gives every row every header's key,
\* a blank cell as the empty string
Personnel == { Row(IdA1, "Tan", PesB2), Row(IdA1, "Lim", Pesb2),
               Row(Ida1, "Ong", PesB2), Row(Blank, "Goh", PesB2) }

Entry(syn, label, start, end) ==
    [syn |-> syn, label |-> label, start |-> start, end |-> end]

\* form submissions for the resolver on its own: every combination
Entries == [syn : {IdA1}, label : {"MC", "LD"}, start : Dates, end : Dates]
           \cup { Entry(IdB2, "MC", PastDate, FutureDate),
                  Entry(IdB2, "LD", BadDate, BadDate) }

\* form submissions while the handlers run
Submissions == { Entry(IdA1, "MC", TodayDate, FutureDate),
                 Entry(IdA1, "LD", PastDate, TodayDate),
                 Entry(IdA1, "LD", PastDate, PastDate),
                 Entry(IdA1, "MC", FutureDate, FutureDate),
                 Entry(IdA1, "MC", BadDate, FutureDate),
                 Entry(Ida1, "MC", PastDate, FutureDate) }

SeqsUpTo(S, n) == UNION { [1..k -> S] : k \in 0..n }

UserArgs == { <<>>, <<IdA1>>, <<Ida1>>, <<IdZ9>> }
PesArgs  == { <<>>, <<PesB2>>, <<Pesb2>>, <<PesC3>> }

(* ---------------- composing the reply ---------------- *)
\* f"{row['RANK']} {row['NAME']}\nPES: {row['PES']}"
Summary(row) == <<row.rank, row.name, row.pes>>

\* the summary, then "\n" and the status line "if status"
Block(row, status) == [summary |-> Summary(row), status |-> status]

AppendBlockIfStatus(resp, row, status) ==
    IF status = None THEN resp ELSE Append(resp, Block(row, status))
\* response += summary; if status: response += "\n" + status; response += "\n\n"
AppendBlock(resp, row, status) == Append(resp, Block(row, status))

Reply(kind, body) == [kind |-> kind, body |-> body]
NoReply == Reply("none", <<>>)

FindFirstRow(rows, syn_no) == IF Len(rows) > 0 THEN 1 ELSE 0
\* "for row in data: if row['SYN NO'] == syn_no: ...; break": the position
\* of the first row with that SYN NO, 0 when the loop ends without one
FindUser(rows, syn_no) ==
    IF \E j \in DOMAIN rows : rows[j].syn = syn_no
    THEN CHOOSE j \in DOMAIN rows :
            /\ rows[j].syn = syn_no
            /\ \A l \in 1..(j - 1) : rows[l].syn # syn_no
    ELSE 0

(* ---------------- initial states ---------------- *)
Idle ==
    /\ pc = "idle" /\ cmd = "none" /\ args = <<>> /\ key = None
    /\ data = <<>> /\ i = 0 /\ user_details = None /\ response = <<>>
    /\ form_data = <<>> /\ latest_status = None /\ errlog = {}
    /\ reply = NoReply

Init ==
    /\ roster \in SeqsUpTo(Personnel, MaxRoster)
    /\ formLog = <<>>
    /\ Idle

InitResolve ==
    /\ roster = <<>>
    /\ formLog \in SeqsUpTo(Entries, MaxLog)
    /\ Idle

(* ---------------- the form, outside the program ---------------- *)
\* a form submission appends one row to "Form responses 1"
Submit(e) ==
    /\ Len(formLog) < MaxLog
    /\ formLog' = Append(formLog, e)
    /\ UNCHANGED <<roster, pc, cmd, args, key, data, i, user_details, response,
                   form_data, latest_status, errlog, reply>>

(* ---------------- get_medical_status called on its own ---------------- *)
Resolve(syn_no, ok) ==
    /\ pc = "idle"
    /\ LET r == get_medical_status(syn_no, ok, formLog) IN
         /\ latest_status' = r.ret
         /\ errlog' = Logged(r.err)
    /\ form_data' = IF ok THEN formLog ELSE <<>>
    /\ cmd' = "get_medical_status" /\ key' = syn_no /\ pc' = "done"
    /\ UNCHANGED <<roster, formLog, args, data, i, user_details, response, reply>>

(* ---------------- search_user ---------------- *)
\* lines 73-88: usage, the roster read and the scan for the SYN NO
SearchUser(a, ok) ==
    /\ pc = "idle"
    /\ cmd' = "search_user" /\ args' = a
    /\ i' = 0 /\ response' = <<>> /\ form_data' = <<>>
    /\ latest_status' = None /\ errlog' = {}
    /\ IF a = <<>>
       THEN /\ reply' = Reply("usage", <<>>)
            /\ key' = None /\ data' = <<>> /\ user_details' = None
            /\ pc' = "done"
       ELSE /\ key' = Upper(a[1])
            /\ IF ~ok
               THEN /\ reply' = Reply("raised", <<>>)
                    /\ data' = <<>> /\ user_details' = None
                    /\ pc' = "done"
               ELSE /\ data' = roster
                    /\ LET j == FindUser(roster, Upper(a[1])) IN
                         IF j = 0
                         THEN /\ user_details' = None
                              /\ reply' = Reply("not_found", <<>>)
                              /\ pc' = "done"
                         ELSE /\ user_details' = Summary(roster[j])
                              /\ reply' = NoReply
                              /\ pc' = "su_status"
    /\ UNCHANGED <<roster, formLog>>

\* lines 90-95: the status read and the reply
SearchUserStatus(ok) ==
    /\ pc = "su_status"
    /\ LET r == get_medical_status(key, ok, formLog) IN
         /\ latest_status' = r.ret
         /\ errlog' = errlog \cup Logged(r.err)
         /\ reply' = Reply("record",
                           <<[summary |-> user_details, status |-> r.ret]>>)
    /\ form_data' = IF ok THEN formLog ELSE <<>>
    /\ pc' = "done"
    /\ UNCHANGED <<roster, formLog, cmd, args, key, data, i, user_details, response>>

(* ---------------- search_pes ---------------- *)
\* lines 98-104: usage and the roster read
SearchPes(a, ok) ==
    /\ pc = "idle"
    /\ cmd' = "search_pes" /\ args' = a
    /\ user_details' = None /\ response' = <<>> /\ form_data' = <<>>
    /\ latest_status' = None /\ errlog' = {}
    /\ IF a = <<>>
       THEN /\ reply' = Reply("usage", <<>>)
            /\ key' = None /\ data' = <<>> /\ i' = 0
            /\ pc' = "done"
       ELSE /\ key' = Upper(a[1])
            /\ IF ~ok
               THEN /\ reply' = Reply("raised", <<>>)
                    /\ data' = <<>> /\ i' = 0
                    /\ pc' = "done"
               ELSE /\ data' = roster /\ i' = 1
                    /\ reply' = NoReply
                    /\ pc' = "pes_loop"
    /\ UNCHANGED <<roster, formLog>>

\* lines 106-113: one turn of the loop; a row of the queried PES reads the
\* form log
SearchPesRow(ok) ==
    /\ pc = "pes_loop" /\ i <= Len(data)
    /\ LET row == data[i] IN
         IF row.pes = key
         THEN LET r == get_medical_status(row.syn, ok, formLog) IN
                /\ latest_status' = r.ret
                /\ errlog' = errlog \cup Logged(r.err)
                /\ response' = AppendBlock(response, row, r.ret)
                /\ form_data' = IF ok THEN formLog ELSE <<>>
         ELSE /\ ok
              /\ UNCHANGED <<latest_status, errlog, response, form_data>>
    /\ i' = i + 1
    /\ UNCHANGED <<roster, formLog, pc, cmd, args, key, data, user_details, reply>>

\* line 115
SearchPesReply ==
    /\ pc = "pes_loop" /\ i > Len(data)
    /\ reply' = IF response # <<>> THEN Reply("blocks", response)
                ELSE Reply("no_personnel", <<>>)
    /\ pc' = "done" /\ i' = 0 /\ response' = <<>>
    /\ UNCHANGED <<roster, formLog, cmd, args, key, data, user_details,
                   form_data, latest_status, errlog>>

(* ---------------- show_all ---------------- *)
\* lines 118-119: the roster read
ShowAll(ok) ==
    /\ pc = "idle"
    /\ cmd' = "show_all" /\ args' = <<>> /\ key' = None
    /\ user_details' = None /\ response' = <<>> /\ form_data' = <<>>
    /\ latest_status' = None /\ errlog' = {}
    /\ IF ~ok
       THEN /\ reply' = Reply("raised", <<>>)
            /\ data' = <<>> /\ i' = 0
            /\ pc' = "done"
       ELSE /\ data' = roster /\ i' = 1
            /\ reply' = NoReply
            /\ pc' = "all_loop"
    /\ UNCHANGED <<roster, formLog>>

\* lines 121-127: one turn of the loop, which reads the form log
ShowAllRow(ok) ==
    /\ pc = "all_loop" /\ i <= Len(data)
    /\ LET row == data[i]
           r == get_medical_status(row.syn, ok, formLog)
       IN /\ latest_status' = r.ret
          /\ errlog' = errlog \cup Logged(r.err)
          /\ response' = AppendBlock(response, row, r.ret)
    /\ form_data' = IF ok THEN formLog ELSE <<>>
    /\ i' = i + 1
    /\ UNCHANGED <<roster, formLog, pc, cmd, args, key, data, user_details, reply>>

\* line 129
ShowAllReply ==
    /\ pc = "all_loop" /\ i > Len(data)
    /\ reply' = Reply("blocks", response)
    /\ pc' = "done" /\ i' = 0 /\ response' = <<>>
    /\ UNCHANGED <<roster, formLog, cmd, args, key, data, user_details,
                   form_data, latest_status, errlog>>

(* ---------------- the end of a command ---------------- *)
\* the handler returns and its locals are gone
Return ==
    /\ pc = "done"
    /\ pc' = "idle" /\ cmd' = "none" /\ args' = <<>> /\ key' = None
    /\ data' = <<>> /\ i' = 0 /\ user_details' = None /\ response' = <<>>
    /\ form_data' = <<>> /\ latest_status' = None /\ errlog' = {}
    /\ reply' = NoReply
    /\ UNCHANGED <<roster, formLog>>

(* ---------------- specifications ---------------- *)
Next ==
    \/ \E e \in Submissions : Submit(e)
    \/ \E a \in UserArgs, ok \in BOOLEAN : SearchUser(a, ok)
    \/ \E ok \in BOOLEAN : SearchUserStatus(ok)
    \/ \E a \in PesArgs, ok \in BOOLEAN : SearchPes(a, ok)
    \/ \E ok \in BOOLEAN : SearchPesRow(ok)
    \/ SearchPesReply
    \/ \E ok \in BOOLEAN : ShowAll(ok)
    \/ \E ok \in BOOLEAN : ShowAllRow(ok)
    \/ ShowAllReply
    \/ Return

\* the handlers, with the form appending to the log while they run
Spec == Init /\ [][Next]_vars

NextResolve ==
    \/ \E syn_no \in {IdA1, IdB2}, ok \in BOOLEAN : Resolve(syn_no, ok)
    \/ Return

\* get_medical_status on its own, over every form log within the bound
SpecResolve == InitResolve /\ [][NextResolve]_vars

(* ---------------- what the properties speak of ---------------- *)
Max(S) == CHOOSE k \in S : \A l \in S : l <= k
Min(S) == CHOOSE k \in S : \A l \in S : k <= l

EqIgnoreCase(a, b) == Upper(a) = Upper(b)

\* both dates of a form row are calendar dates in DD/MM/YYYY
Parseable(e) == Strptime(e.start) # ValueError /\ Strptime(e.end) # ValueError

\* a form row of identifier syn whose interval holds today, ends included
Qualifies(e, syn) ==
    /\ e.syn = syn
    /\ Parseable(e)
    /\ Strptime(e.start) =< today
    /\ today =< Strptime(e.end)

\* a form row of identifier syn that is over or has not begun
Inactive(e, syn) ==
    /\ e.syn = syn
    /\ Parseable(e)
    /\ (Strptime(e.end) < today \/ Strptime(e.start) > today)

Resolved   == pc = "done" /\ cmd = "get_medical_status"
LogWasRead == "APIError" \notin errlog

Summaries(rows)  == [j \in DOMAIN rows |-> Summary(rows[j])]
BlockRows(body)  == [j \in DOMAIN body |-> body[j].summary]

\* C1: when the log was read and holds an entry of the queried identifier
\* with start <= today <= end, get_medical_status returns the status of the
\* qualifying entry highest in the log, whatever else the log holds.
C1_MostRecentActive ==
    (Resolved /\ LogWasRead) =>
        LET Q == {k \in DOMAIN form_data : Qualifies(form_data[k], key)} IN
        Q # {} => latest_status = StatusLine(form_data[Max(Q)])

\* C2: a row of the queried identifier with an unparseable date does not end
\* the scan: an active row of the same identifier lower in the log (scanned
\* after it) is still returned.
C2_MalformedRowSkipped ==
    (Resolved /\ LogWasRead) =>
        \A p \in DOMAIN form_data :
            ( /\ Qualifies(form_data[p], key)
              /\ \E q \in DOMAIN form_data :
                     /\ q > p
                     /\ form_data[q].syn = key
                     /\ ~Parseable(form_data[q]) )
            => latest_status \in
                 { StatusLine(form_data[k]) :
                     k \in {l \in DOMAIN form_data : Qualifies(form_data[l], key)} }

Answered(c) == pc = "done" /\ cmd = c /\ reply.kind # "usage" /\ reply.kind # "raised"

\* C3: search_user answers with the first roster row whose identifier equals
\* the query ignoring the case of both, and with "not found" only when no
\* roster row does.
C3_LookupIgnoresCase ==
    Answered("search_user") =>
        LET M == {j \in DOMAIN data : EqIgnoreCase(data[j].syn, args[1])} IN
        /\ (reply.kind = "not_found") <=> (M = {})
        /\ M # {} => /\ reply.kind = "record"
                     /\ reply.body[1].summary = Summary(data[Min(M)])

\* C4: search_pes answers with one block for exactly the roster rows whose
\* category equals the query ignoring the case of both, in roster order, and
\* with "no personnel found" exactly when there is no such row.
C4_CategoryIgnoresCase ==
    Answered("search_pes") =>
        LET sel == SelectSeq(data, LAMBDA r : EqIgnoreCase(r.pes, args[1])) IN
        /\ (reply.kind = "no_personnel") <=> (sel = <<>>)
        /\ sel # <<>> => /\ reply.kind = "blocks"
                         /\ BlockRows(reply.body) = Summaries(sel)

\* C5: when the form log could not be read, the answer of search_user is not
\* the answer given for a person with no active status.
C5_ReadFailureDistinct ==
    (Answered("search_user") /\ reply.kind = "record" /\ ~LogWasRead) =>
        reply # Reply("record", <<[summary |-> user_details, status |-> None]>>)

\* C6: show_all answers with exactly one block per roster row, in roster
\* order, whether or not the row has a status.
C6_OneBlockPerRow ==
    Answered("show_all") =>
        /\ reply.kind = "blocks"
        /\ BlockRows(reply.body) = Summaries(roster)

C6_Witness ==
    /\ Answered("show_all")
    /\ Len(roster) = MaxRoster
    /\ \E j \in DOMAIN reply.body : reply.body[j].status = None
    /\ \E j \in DOMAIN reply.body : reply.body[j].status # None

\* C7: for an identifier no roster row carries (ignoring case), search_user
\* answers "not found" without consulting the form log, whatever the log
\* holds.
C7_AbsentNotFound ==
    ( /\ cmd = "search_user" /\ pc # "idle" /\ args # <<>>
      /\ reply.kind # "raised"
      /\ \A j \in DOMAIN roster : ~EqIgnoreCase(roster[j].syn, args[1]) )
    => /\ pc = "done"
       /\ reply = Reply("not_found", <<>>)
       /\ latest_status = None /\ form_data = <<>> /\ errlog = {}

C7_Witness ==
    /\ Answered("search_user")
    /\ roster # <<>>
    /\ \A j \in DOMAIN roster : ~EqIgnoreCase(roster[j].syn, args[1])
    /\ \E k \in DOMAIN formLog : Qualifies(formLog[k], key)
    /\ reply.kind = "not_found"

\* C8: when every entry of the identifier in the log read is over or has not
\* begun (or there is none), get_medical_status returns None and search_user
\* answers with the summary alone; an entry that starts or ends today is
\* active: when it is the identifier's latest entry, it is the status shown.
C8_InactiveAbsentInclusive ==
    (Answered("search_user") /\ reply.kind = "record") =>
        LET mine == {k \in DOMAIN form_data : form_data[k].syn = key} IN
        /\ (\A k \in mine : Inactive(form_data[k], key)) =>
              /\ latest_status = None
              /\ reply = Reply("record",
                               <<[summary |-> user_details, status |-> None]>>)
        /\ ( /\ mine # {}
             /\ Qualifies(form_data[Max(mine)], key)
             /\ ( \/ Strptime(form_data[Max(mine)].start) = today
                  \/ Strptime(form_data[Max(mine)].end) = today ) )
           => /\ latest_status = StatusLine(form_data[Max(mine)])
              /\ reply.body[1].status = latest_status

C8_Witness ==
    /\ Answered("search_user") /\ reply.kind = "record"
    /\ Len(form_data) = MaxLog
    /\ \A k \in DOMAIN form_data : Inactive(form_data[k], key)
    /\ \E k \in DOMAIN form_data : Strptime(form_data[k].end) < today
    /\ \E k \in DOMAIN form_data : Strptime(form_data[k].start) > today
    /\ reply.body[1].status = None

\* C9: a roster row with a blank field is skipped: show_all and search_pes
\* answer with blocks for the remaining rows only, and do not fail.
HasBlank(r) == r.syn = Blank \/ r.rank = "" \/ r.name = "" \/ r.pes = Blank

C9_BlankRowSkipped ==
    /\ Answered("show_all") =>
          BlockRows(reply.body) =
              Summaries(SelectSeq(data, LAMBDA r : ~HasBlank(r)))
    /\ (Answered("search_pes") /\ reply.kind = "blocks") =>
          BlockRows(reply.body) =
              Summaries(SelectSeq(data, LAMBDA r : ~HasBlank(r) /\ r.pes = key))

\* C10: the answer of show_all or search_pes agrees with one snapshot of the
\* form log: there is one prefix L of the log such that every block shows
\* the status get_medical_status resolves against L.
OnPrefix(syn, k) == get_medical_status(syn, TRUE, SubSeq(formLog, 1, k)).ret

C10_SingleSnapshot ==
    /\ (Answered("show_all") /\ LogWasRead) =>
          \E k \in 0..Len(formLog) :
             \A j \in DOMAIN reply.body :
                reply.body[j].status = OnPrefix(data[j].syn, k)
    /\ (Answered("search_pes") /\ LogWasRead) =>
          LET sel == SelectSeq(data, LAMBDA r : r.pes = key) IN
          \E k \in 0..Len(formLog) :
             \A j \in DOMAIN reply.body :
                reply.body[j].status = OnPrefix(sel[j].syn, k)
====
